---------------------------- MODULE Spec2Model ----------------------------
(***************************************************************************)
(* Model of the LSP snippet parser of helix-core/src/snippet.rs.           *)
(*                                                                         *)
(* Text is a sequence of one-character strings.  A parser is an operator   *)
(* from an input text to a result record                                   *)
(*     [ok |-> TRUE,  rest |-> remaining input, val |-> value]             *)
(*     [ok |-> FALSE, rest |-> the input it was given, val |-> <<>>].      *)
(* An Option is a sequence of length 0 (None) or 1 (Some).                 *)
(* A usize is held as its canonical decimal numeral (a digit sequence      *)
(* without leading zeros), because 2^64 is outside TLC's integer range.    *)
(***************************************************************************)
EXTENDS Integers, Sequences, FiniteSets, TLC

VARIABLES input, result, pc

vars == <<input, result, pc>>

---------------------------------------------------------------------------
(* Characters                                                              *)

DigitChars == <<"0", "1", "2", "3", "4", "5", "6", "7", "8", "9">>

Digits == {DigitChars[i] : i \in 1..Len(DigitChars)}

Lower == {"a", "b", "c", "d", "e", "f", "g", "h", "i", "j", "k", "l", "m",
          "n", "o", "p", "q", "r", "s", "t", "u", "v", "w", "x", "y", "z"}

Upper == {"A", "B", "C", "D", "E", "F", "G", "H", "I", "J", "K", "L", "M",
          "N", "O", "P", "Q", "R", "S", "T", "U", "V", "W", "X", "Y", "Z"}

\* VARIABLE = ^[_a-zA-Z][_a-zA-Z0-9]*
VarStart == Lower \cup Upper \cup {"_"}

VarCont == VarStart \cup Digits

Drop(s, n) == SubSeq(s, n + 1, Len(s))

Take(s, n) == SubSeq(s, 1, n)

\* Length of the longest prefix of s whose characters all lie outside stop.
RECURSIVE PrefixLenOutside(_, _)
PrefixLenOutside(s, stop) ==
    IF s = <<>> \/ s[1] \in stop THEN 0
    ELSE 1 + PrefixLenOutside(Tail(s), stop)

\* Length of the longest prefix of s whose characters all lie inside set.
RECURSIVE PrefixLenInside(_, _)
PrefixLenInside(s, set) ==
    IF s = <<>> \/ s[1] \notin set THEN 0
    ELSE 1 + PrefixLenInside(Tail(s), set)

---------------------------------------------------------------------------
(* Combinator toolkit (crate::parser_combinator)                           *)

Ok(rest, val) == [ok |-> TRUE, rest |-> rest, val |-> val]

Err(inp) == [ok |-> FALSE, rest |-> inp, val |-> <<>>]

None == <<>>

Some(v) == <<v>>

\* literal match: succeeds iff the input starts with lit; consumes it.
Lit(lit, inp) ==
    IF Len(inp) >= Len(lit) /\ Take(inp, Len(lit)) = lit
    THEN Ok(Drop(inp, Len(lit)), lit)
    ELSE Err(inp)

\* take_until(pred): the longest prefix of characters not satisfying pred.
\* It fails when that prefix is empty: test regex_capture_replace expects
\* optional(take_until(|c| c == '}')) to yield None on the input "}".
TakeUntilLen(n, inp) == IF n = 0 THEN Err(inp) ELSE Ok(Drop(inp, n), Take(inp, n))

TakeUntil(stop, inp) == TakeUntilLen(PrefixLenOutside(inp, stop), inp)

\* map(p, f) with a constant f: the value of a success replaced by v.
Map(r, v) == IF r.ok THEN Ok(r.rest, v) ELSE r

\* or / choice!: the first of two results, unless it is a failure.
Or(a, b) == IF a.ok THEN a ELSE b

\* optional: always succeeds; wraps the sub-parser's result.
Optional(r, inp) == IF r.ok THEN Ok(r.rest, Some(r.val)) ELSE Ok(inp, None)

\* seq!: the parsers run one after the other, each on what the one before
\* left; the value is the tuple of their values.  The first failure makes
\* the sequence fail.
Begin(inp) == Ok(inp, <<>>)

Push(r, q) ==
    IF ~r.ok THEN r
    ELSE IF ~q.ok THEN q
    ELSE Ok(q.rest, Append(r.val, q.val))

Then(r, P(_)) == Push(r, P(r.rest))

Seq2(inp, P1(_), P2(_)) == Then(Then(Begin(inp), P1), P2)

Seq3(inp, P1(_), P2(_), P3(_)) == Then(Seq2(inp, P1, P2), P3)

Seq4(inp, P1(_), P2(_), P3(_), P4(_)) == Then(Seq3(inp, P1, P2, P3), P4)

Seq5(inp, P1(_), P2(_), P3(_), P4(_), P5(_)) ==
    Then(Seq4(inp, P1, P2, P3, P4), P5)

Seq6(inp, P1(_), P2(_), P3(_), P4(_), P5(_), P6(_)) ==
    Then(Seq5(inp, P1, P2, P3, P4, P5), P6)

Seq7(inp, P1(_), P2(_), P3(_), P4(_), P5(_), P6(_), P7(_)) ==
    Then(Seq6(inp, P1, P2, P3, P4, P5, P6), P7)

\* map(seq!(..), f): a failed sequence gives back the input it started on.
Finish(r, inp, F(_)) == IF r.ok THEN Ok(r.rest, F(r.val)) ELSE Err(inp)

\* One round of zero_or_more / one_or_more: a success is followed by the
\* rest of the loop, a failure ends the loop where it was tried.
Cons(r, more) == Ok(more.rest, <<r.val>> \o more.val)

Round(r, inp, Loop(_)) == IF r.ok THEN Cons(r, Loop(r.rest)) ELSE Ok(inp, <<>>)

\* one_or_more: the loop has to succeed at least once.
AtLeastOne(r, inp) == IF r.val # <<>> THEN r ELSE Err(inp)

\* reparse_as(outer, inner): inner runs on the text outer carved and has to
\* consume all of it.
ReparseAs(carved, P(_), inp) ==
    IF carved.ok /\ P(carved.val).ok /\ P(carved.val).rest = <<>>
    THEN Ok(carved.rest, P(carved.val).val)
    ELSE Err(inp)

---------------------------------------------------------------------------
(* Matcher primitives                                                      *)

PatternLen(n, inp) == IF n = 0 THEN Err(inp) ELSE Ok(Drop(inp, n), Take(inp, n))

\* pattern(&DIGIT), DIGIT = ^[0-9]+
PatternDigit(inp) == PatternLen(PrefixLenInside(inp, Digits), inp)

\* pattern(&VARIABLE)
var(inp) ==
    IF inp = <<>> \/ inp[1] \notin VarStart THEN Err(inp)
    ELSE PatternLen(1 + PrefixLenInside(Tail(inp), VarCont), inp)

\* Mutant of TextStop: TEXT written as ^.+ (it accepts '$' as well).
TextStopNone == {}

\* The characters that TEXT = ^[^\$]+ refuses.
TextStop == {"$"}

\* Mutant of PatternText: TEXT written as ^[^\$]* (it matches the empty text).
PatternTextStar(inp) ==
    Ok(Drop(inp, PrefixLenOutside(inp, TextStop)),
       Take(inp, PrefixLenOutside(inp, TextStop)))

\* pattern(&TEXT)
PatternText(inp) == PatternLen(PrefixLenOutside(inp, TextStop), inp)

\* usize::MAX on a 64-bit target, 18446744073709551615, as a numeral.
UsizeMax == <<"1", "8", "4", "4", "6", "7", "4", "4", "0", "7",
              "3", "7", "0", "9", "5", "5", "1", "6", "1", "5">>

DigitVal(c) == CHOOSE i \in 0..9 : DigitChars[i + 1] = c

\* The numeral without its leading zeros ("000" is "0").
RECURSIVE Canon(_)
Canon(d) ==
    IF Len(d) > 1 /\ d[1] = "0" THEN Canon(Tail(d)) ELSE d

\* a <= b for canonical numerals.
RECURSIVE NumLeq(_, _)
NumLeq(a, b) ==
    IF Len(a) # Len(b) THEN Len(a) < Len(b)
    ELSE IF a = <<>> THEN TRUE
    ELSE IF a[1] # b[1] THEN DigitVal(a[1]) < DigitVal(b[1])
    ELSE NumLeq(Tail(a), Tail(b))

\* str::parse::<usize>: Some(value), or None on overflow.
ParseUsize(d) ==
    IF NumLeq(Canon(d), UsizeMax) THEN Some(Canon(d)) ELSE None

\* filter_map(p, |s| s.parse().ok()): a rejected value is a failure.
FilterMapUsize(r, inp) ==
    IF r.ok /\ ParseUsize(r.val) # None
    THEN Ok(r.rest, ParseUsize(r.val)[1])
    ELSE Err(inp)

\* Mutant of digit: the digit run is taken as a number of any magnitude.
DigitUnbounded(inp) == Map(PatternDigit(inp), Canon(PatternDigit(inp).val))

\* filter_map(pattern(&DIGIT), |s| s.parse().ok())
digit(inp) == FilterMapUsize(PatternDigit(inp), inp)

---------------------------------------------------------------------------
(* Grammar rules                                                           *)

Dollar == <<"$">>

DollarBrace == <<"$", "{">>

CloseBrace == <<"}">>

Upcase == <<"u", "p", "c", "a", "s", "e">>

Downcase == <<"d", "o", "w", "n", "c", "a", "s", "e">>

Capitalize == <<"c", "a", "p", "i", "t", "a", "l", "i", "z", "e">>

\* The literals of the grammar as parsers.
LitDollar(inp) == Lit(Dollar, inp)

LitOpen(inp) == Lit(DollarBrace, inp)

LitClose(inp) == Lit(CloseBrace, inp)

LitColon(inp) == Lit(<<":">>, inp)

LitSlash(inp) == Lit(<<"/">>, inp)

UntilClose(inp) == TakeUntil({"}"}, inp)

UntilColon(inp) == TakeUntil({":"}, inp)

UntilSlash(inp) == TakeUntil({"/"}, inp)

\* choice!(map("upcase", ..), map("downcase", ..), map("capitalize", ..))
case_change(inp) ==
    Or(Map(Lit(Upcase, inp), "Upcase"),
    Or(Map(Lit(Downcase, inp), "Downcase"),
       Map(Lit(Capitalize, inp), "Capitalize")))

\* FormatItem constructors
FText(t) == [kind |-> "Text", text |-> t]

Capture(n) == [kind |-> "Capture", group |-> n]

CaseChange(n, c) == [kind |-> "CaseChange", group |-> n, change |-> c]

Conditional(n, if, else) ==
    [kind |-> "Conditional", group |-> n, if |-> if, else |-> else]

\* map(right("$", digit()), Capture)
FormatBareCapture(inp) ==
    Finish(Seq2(inp, LitDollar, digit), inp, LAMBDA v : Capture(v[2]))

\* map(seq!("${", digit(), "}"), |seq| Capture(seq.1))
FormatBracedCapture(inp) ==
    Finish(Seq3(inp, LitOpen, digit, LitClose), inp, LAMBDA v : Capture(v[2]))

\* map(seq!("${", digit(), ":/", case_change(), "}"), ..)
FormatCaseChange(inp) ==
    Finish(Seq5(inp, LitOpen, digit, LAMBDA x : Lit(<<":", "/">>, x),
                case_change, LitClose),
           inp, LAMBDA v : CaseChange(v[2], v[4]))

\* map(seq!("${", digit(), ":+", take_until(|c| c == '}'), "}"), ..)
FormatIf(inp) ==
    Finish(Seq5(inp, LitOpen, digit, LAMBDA x : Lit(<<":", "+">>, x),
                UntilClose, LitClose),
           inp, LAMBDA v : Conditional(v[2], Some(v[4]), None))

\* map(seq!("${", digit(), ":?", take_until(':'), ":", take_until('}'), "}"), ..)
FormatIfElse(inp) ==
    Finish(Seq7(inp, LitOpen, digit, LAMBDA x : Lit(<<":", "?">>, x),
                UntilColon, LitColon, UntilClose, LitClose),
           inp, LAMBDA v : Conditional(v[2], Some(v[4]), Some(v[6])))

\* map(seq!("${", digit(), ":", optional("-"), take_until('}'), "}"), ..)
FormatElse(inp) ==
    Finish(Seq6(inp, LitOpen, digit, LitColon,
                LAMBDA x : Optional(Lit(<<"-">>, x), x), UntilClose, LitClose),
           inp, LAMBDA v : Conditional(v[2], None, Some(v[5])))

\* map(pattern(&TEXT), Text)
FormatText(inp) ==
    Finish(Then(Begin(inp), PatternText), inp, LAMBDA v : FText(v[1]))

\* choice!(..): the first alternative that succeeds.
format(inp) ==
    Or(FormatBareCapture(inp),
    Or(FormatBracedCapture(inp),
    Or(FormatCaseChange(inp),
    Or(FormatIf(inp),
    Or(FormatIfElse(inp),
    Or(FormatElse(inp),
       FormatText(inp)))))))

RECURSIVE ZeroOrMoreFormat(_)
ZeroOrMoreFormat(inp) == Round(format(inp), inp, ZeroOrMoreFormat)

\* one_or_more(format())
OneOrMoreFormat(inp) == AtLeastOne(ZeroOrMoreFormat(inp), inp)

\* reparse_as(take_until(|c| c == '/'), one_or_more(format()))
replacement(inp) == ReparseAs(UntilSlash(inp), OneOrMoreFormat, inp)

Regex(value, repl, options) ==
    [value |-> value, replacement |-> repl, options |-> options]

\* Mutant of regex: the options are present even when nothing follows the
\* last '/'.
RegexOptionsPresent(inp) ==
    Finish(Seq6(inp, LitSlash, UntilSlash, LitSlash, replacement, LitSlash,
                LAMBDA x : Or(UntilClose(x), Ok(x, <<>>))),
           inp, LAMBDA v : Regex(v[2], v[4], Some(v[6])))

regex(inp) ==
    Finish(Seq6(inp, LitSlash, UntilSlash, LitSlash, replacement, LitSlash,
                LAMBDA x : Optional(UntilClose(x), x)),
           inp, LAMBDA v : Regex(v[2], v[4], v[6]))

\* SnippetElement constructors
Tabstop(n) == [kind |-> "Tabstop", tabstop |-> n]

Placeholder(n, v) == [kind |-> "Placeholder", tabstop |-> n, value |-> v]

Choice(n, cs) == [kind |-> "Choice", tabstop |-> n, choices |-> cs]

Variable(name, default, re) ==
    [kind |-> "Variable", name |-> name, default |-> default, regex |-> re]

Text(t) == [kind |-> "Text", text |-> t]

\* Mutant of tabstop: only the '$' int form is accepted.
TabstopBareOnly(inp) ==
    Finish(Seq2(inp, LitDollar, digit), inp, LAMBDA v : Tabstop(v[2]))

\* or(right("$", digit()), map(seq!("${", digit(), "}"), |values| values.1))
tabstop(inp) ==
    Finish(Or(Seq2(inp, LitDollar, digit), Seq3(inp, LitOpen, digit, LitClose)),
           inp, LAMBDA v : Tabstop(v[2]))

\* One alternative of a choice: take_until(|c| c == ',' || c == '|')
Alternative(inp) == TakeUntil({",", "|"}, inp)

\* sep(p, ","): one or more p with "," between consecutive ones.
SepValue(v) == v[2]

RECURSIVE SepTail(_)
SepTail(inp) ==
    Round(Finish(Seq2(inp, LAMBDA x : Lit(<<",">>, x), Alternative), inp, SepValue),
          inp, SepTail)

SepFirst(r, inp) == IF r.ok THEN Cons(r, SepTail(r.rest)) ELSE Err(inp)

SepChoices(inp) == SepFirst(Alternative(inp), inp)

choice(inp) ==
    Finish(Seq5(inp, LitOpen, digit, LAMBDA x : Lit(<<"|">>, x), SepChoices,
                LAMBDA x : Lit(<<"|", "}">>, x)),
           inp, LAMBDA v : Choice(v[2], v[4]))

\* map(right("$", var()), ..)
VariableBare(inp) ==
    Finish(Seq2(inp, LitDollar, var), inp, LAMBDA v : Variable(v[2], None, None))

\* map(seq!("${", var(), ":", take_until(|c| c == '}'), "}"), ..)
VariableDefault(inp) ==
    Finish(Seq5(inp, LitOpen, var, LitColon, UntilClose, LitClose),
           inp, LAMBDA v : Variable(v[2], Some(v[4]), None))

\* map(seq!("${", var(), regex(), "}"), ..)
VariableRegex(inp) ==
    Finish(Seq4(inp, LitOpen, var, regex, LitClose),
           inp, LAMBDA v : Variable(v[2], None, Some(v[3])))

variable(inp) ==
    Or(VariableBare(inp), Or(VariableDefault(inp), VariableRegex(inp)))

\* map(pattern(&TEXT), SnippetElement::Text)
text(inp) == Finish(Then(Begin(inp), PatternText), inp, LAMBDA v : Text(v[1]))

RECURSIVE anything(_)

\* filter_map(p, |s| anything().parse(s).map(|parse_result| parse_result.1).ok()):
\* the element of the nested parse is kept and what that parse left of the
\* carved text is dropped; a failed nested parse is a failure.
FilterMapFirst(carved, inner, inp) ==
    IF carved.ok /\ inner.ok THEN Ok(carved.rest, inner.val) ELSE Err(inp)

Nested(carved, inp) == FilterMapFirst(carved, anything(carved.val), inp)

\* value = filter_map(take_until(|c| c == '}'), ..)
PlaceholderValue(inp) == Nested(UntilClose(inp), inp)

placeholder(inp) ==
    Finish(Seq5(inp, LitOpen, digit, LitColon, PlaceholderValue, LitClose),
           inp, LAMBDA v : Placeholder(v[2], v[4]))

\* choice!(tabstop(), placeholder(), choice(), variable(), text())
anything(inp) ==
    Or(tabstop(inp),
    Or(placeholder(inp),
    Or(choice(inp),
    Or(variable(inp),
       text(inp)))))

RECURSIVE ZeroOrMoreAnything(_)
ZeroOrMoreAnything(inp) == Round(anything(inp), inp, ZeroOrMoreAnything)

\* Mutant of snippet: zero_or_more(anything()).
SnippetZeroOrMore(inp) == ZeroOrMoreAnything(inp)

\* one_or_more(anything())
snippet(inp) == AtLeastOne(ZeroOrMoreAnything(inp), inp)

\* Result<Snippet, &str>
ResultOk(elements) == [tag |-> "Ok", elements |-> elements, payload |-> <<>>]

ResultErr(payload) == [tag |-> "Err", elements |-> <<>>, payload |-> payload]

Returned(r) == IF r.ok THEN ResultOk(r.val) ELSE ResultErr(r.rest)

\* Mutant of parse: the input has to be consumed to its end.
ParseStrict(s) == Returned(ReparseAs(Ok(<<>>, s), snippet, s))

\* snippet().parse(s).map(|(_input, elements)| elements)
parse(s) == Returned(snippet(s))

---------------------------------------------------------------------------
(* Inputs                                                                  *)

MaxRawLen == 4

MaxConstructs == 3

MaxNested == 2

MaxPrefix == 1

MaxDigitRun == 2

SeqsUpTo(S, n) == UNION {[1..k -> S] : k \in 0..n}

RECURSIVE Flatten(_)
Flatten(ss) == IF ss = <<>> THEN <<>> ELSE Head(ss) \o Flatten(Tail(ss))

One == <<"1">>

Two == <<"2">>

\* Well-formed constructs: the source text, the element it stands for,
\* whether it is a text run, and the characters that would extend it when
\* they follow it directly (a digit after $n, an identifier character
\* after $name).
Constructs ==
    << [src |-> <<"a">>, elem |-> Text(<<"a">>), text |-> TRUE,
        open |-> {}],
       [src |-> <<"1", " ">>, elem |-> Text(<<"1", " ">>), text |-> TRUE,
        open |-> {}],
       [src |-> <<"$", "1">>, elem |-> Tabstop(One), text |-> FALSE,
        open |-> Digits],
       [src |-> <<"$", "{", "2", "}">>, elem |-> Tabstop(Two), text |-> FALSE,
        open |-> {}],
       [src |-> <<"$", "{", "1", ":", "a", "r", "g", "}">>,
        elem |-> Placeholder(One, Text(<<"a", "r", "g">>)), text |-> FALSE,
        open |-> {}],
       [src |-> <<"$", "{", "1", "|", "a", ",", "b", "}", ",", "d", "|", "}">>,
        elem |-> Choice(One, << <<"a">>, <<"b", "}">>, <<"d">> >>),
        text |-> FALSE, open |-> {}],
       [src |-> <<"$", "{", "n", ":", "d", "$", "1", "}">>,
        elem |-> Variable(<<"n">>, Some(<<"d", "$", "1">>), None), text |-> FALSE,
        open |-> {}],
       [src |-> <<"$", "T", "M">>,
        elem |-> Variable(<<"T", "M">>, None, None), text |-> FALSE,
        open |-> VarCont] >>

ConstructIds == 1..Len(Constructs)

Spell(cs) == Flatten([i \in 1..Len(cs) |-> Constructs[cs[i]].src])

Elems(cs) == [i \in 1..Len(cs) |-> Constructs[cs[i]].elem]

RawAlphabet == {"$", "{", "}", ":", "1", "a"}

RawInputs == SeqsUpTo(RawAlphabet, MaxRawLen)

SnippetInputs == {Spell(cs) : cs \in SeqsUpTo(ConstructIds, MaxConstructs)}

PlaceholderOpen == <<"$", "{", "1", ":">>

NestedInputs ==
    {PlaceholderOpen \o Spell(cs) \o CloseBrace :
        cs \in SeqsUpTo(ConstructIds, MaxNested) \ {<<>>}}

\* Tails that start with '$' and complete no construct.
Unterminated ==
    { <<"$">>, <<"$", "{">>, <<"$", "{", "1">>, <<"$", "{", "1", ":", "a">>,
      <<"$", "{", "1", "|", "a">>, <<"$", "{", "n", ":", "d">> }

TrailingInputs ==
    {Spell(cs) \o m : cs \in SeqsUpTo(ConstructIds, MaxPrefix), m \in Unterminated}

RegexNames == { <<"a">>, <<"T", "M", "_", "1">> }

RegexPatterns == { <<"p">>, <<"(", ".", "*", ")", ".", "+", "$">>, <<"}", "$", "1">> }

RegexNumbers == { <<"1">>, <<"0", "1", "2">> }

RegexOptions == { <<>>, <<"g", "i">> }

\* '${' n ':/' keyword '}'
CaseChangeSrc(n, kw) == DollarBrace \o n \o <<":", "/">> \o kw \o CloseBrace

RegexReplacements ==
    {Dollar \o n : n \in RegexNumbers}
    \cup {DollarBrace \o n \o CloseBrace : n \in RegexNumbers}
    \cup {CaseChangeSrc(n, kw) :
            n \in RegexNumbers, kw \in {Upcase, Downcase, Capitalize}}
    \cup { <<"$", "{", "1", ":", "+", "y", "}">>,
           <<"$", "{", "1", ":", "?", "y", ":", "n", "}">>,
           <<"$", "{", "1", ":", "-", "n", "}">>,
           <<"$", "{", "1", ":", "n", "}">>,
           <<"x">>,
           <<"x", "$", "1", "y">> }

\* '${' name '/' pattern '/' replacement '/' options '}'
RegexSrc(name, pat, repl, opts) ==
    DollarBrace \o name \o <<"/">> \o pat \o <<"/">> \o repl \o <<"/">>
        \o opts \o CloseBrace

RegexInputs ==
    {RegexSrc(name, pat, repl, opts) :
        name \in RegexNames, pat \in RegexPatterns,
        repl \in RegexReplacements, opts \in RegexOptions}

\* Digit runs around usize::MAX: its last digit replaced, a leading zero,
\* and one digit more.
BoundaryRuns ==
    {[UsizeMax EXCEPT ![Len(UsizeMax)] = c] : c \in Digits}
    \cup {<<"0">> \o UsizeMax, <<"0", "0">> \o UsizeMax \o <<"0">>,
          UsizeMax \o <<"0">>, <<"9">> \o UsizeMax}

DigitRuns ==
    BoundaryRuns \cup (SeqsUpTo({"0", "1", "9"}, MaxDigitRun) \ {<<>>})

DigitInputs ==
    {Dollar \o d : d \in DigitRuns}
    \cup {DollarBrace \o d \o CloseBrace : d \in DigitRuns}

Inputs ==
    RawInputs \cup SnippetInputs \cup NestedInputs \cup TrailingInputs
        \cup RegexInputs \cup DigitInputs

---------------------------------------------------------------------------
(* The program: one call of parse on an input                              *)

NoResult == [tag |-> "None", elements |-> <<>>, payload |-> <<>>]

Init ==
    /\ input \in Inputs
    /\ result = NoResult
    /\ pc = "call"

Parse ==
    /\ pc = "call"
    /\ result' = parse(input)
    /\ pc' = "done"
    /\ UNCHANGED input

Next == Parse

Spec == Init /\ [][Next]_vars

---------------------------------------------------------------------------
(* Properties                                                              *)

IsPrefix(p, s) == Len(p) <= Len(s) /\ Take(s, Len(p)) = p

NoneMatchesAtStart(s) ==
    /\ ~tabstop(s).ok
    /\ ~placeholder(s).ok
    /\ ~choice(s).ok
    /\ ~variable(s).ok
    /\ ~text(s).ok

\* C1: parse(s) fails exactly when none of tabstop, placeholder, choice,
\* variable, text matches at position 0 of s; the error value is then the
\* whole input and no element is returned.  The empty string and an input
\* that is an unterminated construct fail.
C1_ErrorIsWholeInput ==
    pc = "done" =>
        /\ (result.tag = "Err") <=> NoneMatchesAtStart(input)
        /\ result.tag = "Err" => result = ResultErr(input)
        /\ input \in {<<>>} \cup Unterminated => result = ResultErr(input)

C1_Witness ==
    /\ pc = "done"
    /\ input = <<"$", "{", "1">>
    /\ result = ResultErr(<<"$", "{", "1">>)

StartsNoConstruct(m) ==
    /\ m # <<>>
    /\ m[1] = "$"
    /\ ~tabstop(m).ok
    /\ ~placeholder(m).ok
    /\ ~choice(m).ok
    /\ ~variable(m).ok

FullyConsumed(t) ==
    /\ t # <<>>
    /\ snippet(t).ok
    /\ snippet(t).rest = <<>>

\* C2: for s = T ++ M with T non-empty and fully consumed by one or more
\* elements, and M starting with '$' but starting no tabstop, placeholder,
\* choice or variable, parse(s) succeeds with exactly the elements of T.
C2_TrailingDropped ==
    pc = "done" =>
        \A k \in 1..(Len(input) - 1) :
            LET t == Take(input, k)
                m == Drop(input, k)
            IN  FullyConsumed(t) /\ StartsNoConstruct(m) =>
                    /\ result = ResultOk(snippet(t).val)
                    /\ Len(result.elements) >= 1

C2_Witness ==
    /\ pc = "done"
    /\ input = <<"a", "$", "{", "1">>
    /\ result = ResultOk(<<Text(<<"a">>)>>)

\* The ways to read s as a concatenation of well-formed constructs.
RECURSIVE Decomps(_)
Decomps(s) ==
    IF s = <<>> THEN {<<>>}
    ELSE UNION {{<<i>> \o d : d \in Decomps(Drop(s, Len(Constructs[i].src)))} :
                    i \in {j \in ConstructIds : IsPrefix(Constructs[j].src, s)}}

\* No two text runs are adjacent and no $n / $name is followed by a
\* character that would extend it.
Separated(cs) ==
    \A i \in 1..(Len(cs) - 1) :
        /\ ~(Constructs[cs[i]].text /\ Constructs[cs[i + 1]].text)
        /\ Constructs[cs[i + 1]].src[1] \notin Constructs[cs[i]].open

\* C3: an input that is a concatenation of well-formed, separated constructs
\* parses to exactly one element per construct, in source order, each with
\* its variant and fields; equal tabstop numbers are not merged.
C3_OneElementPerConstruct ==
    pc = "done" =>
        \A cs \in Decomps(input) :
            cs # <<>> /\ Separated(cs) => result = ResultOk(Elems(cs))

C3_Witness ==
    /\ pc = "done"
    /\ input = Spell(<<3, 5, 6>>)
    /\ result = ResultOk(Elems(<<3, 5, 6>>))
    /\ \A i \in 1..3 : result.elements[i].tabstop = One

\* C4: ${NAME/P/$n/} parses to one Variable with no default and the regex
\* {value: P, replacement: [Capture(n)], options: None}.
C4_RegexCaptureNoOptions ==
    pc = "done" =>
        \A name \in RegexNames, pat \in RegexPatterns, n \in RegexNumbers :
            input = RegexSrc(name, pat, Dollar \o n, <<>>) =>
                result = ResultOk(<<Variable(name, None,
                            Some(Regex(pat, <<Capture(Canon(n))>>, None)))>>)

C4_Witness ==
    /\ pc = "done"
    /\ input = RegexSrc(<<"T", "M", "_", "1">>,
                        <<"(", ".", "*", ")", ".", "+", "$">>, <<"$", "1">>, <<>>)
    /\ result.tag = "Ok"
    /\ result.elements[1].regex[1].options = None

\* C6 (as claimed): for every well-formed construct V of any variant,
\* parse("${1:" ++ V ++ "}") succeeds and returns the one element
\* Placeholder{tabstop: 1, value: the element V parses to}.
C6_NestedAnyVariant ==
    pc = "done" =>
        \A i \in ConstructIds :
            input = PlaceholderOpen \o Constructs[i].src \o CloseBrace =>
                result = ResultOk(<<Placeholder(One, Constructs[i].elem)>>)

IsDigitRun(d) == d # <<>> /\ \A i \in 1..Len(d) : d[i] \in Digits

\* C7 (as claimed): every digit run d, of any length and magnitude, makes
\* parse("$" ++ d) return [Tabstop{tabstop: value of d}].
C7_NoUpperBound ==
    pc = "done" /\ input # <<>> /\ input[1] = "$" /\ IsDigitRun(Tail(input)) =>
        result = ResultOk(<<Tabstop(Canon(Tail(input)))>>)

\* C7 (amended): a digit run d whose value is at most usize::MAX makes
\* parse("$" ++ d) return [Tabstop{tabstop: value of d}]; a digit run of a
\* larger value makes parse("$" ++ d) fail with the input as error value.
C7_BoundedByUsize ==
    pc = "done" /\ input # <<>> /\ input[1] = "$" /\ IsDigitRun(Tail(input)) =>
        IF NumLeq(Canon(Tail(input)), UsizeMax)
        THEN result = ResultOk(<<Tabstop(Canon(Tail(input)))>>)
        ELSE result = ResultErr(input)

C7_Witness ==
    /\ pc = "done"
    /\ input = Dollar \o <<"0">> \o UsizeMax
    /\ result = ResultOk(<<Tabstop(UsizeMax)>>)

\* C8 (as claimed): ${NAME/P/${n:/k}/} with k one of upcase, downcase,
\* capitalize parses to one Variable whose regex has the replacement
\* [CaseChange(n, kind of k)].
C8_CaseChangeRecognised ==
    pc = "done" =>
        \A name \in RegexNames, pat \in RegexPatterns, n \in RegexNumbers,
           kw \in {Upcase, Downcase, Capitalize} :
            input = RegexSrc(name, pat, CaseChangeSrc(n, kw), <<>>) =>
                /\ result.tag = "Ok"
                /\ Len(result.elements) = 1
                /\ result.elements[1].kind = "Variable"
                /\ result.elements[1].regex # None
                /\ result.elements[1].regex[1].replacement
                       = <<CaseChange(Canon(n), case_change(kw).val)>>

RECURSIVE ElementInvariant(_)
ElementInvariant(e) ==
    CASE e.kind = "Variable" ->
            /\ ~(e.default # None /\ e.regex # None)
            /\ e.regex # None => Len(e.regex[1].replacement) >= 1
      [] e.kind = "Choice" -> Len(e.choices) >= 1
      [] e.kind = "Placeholder" -> ElementInvariant(e.value)
      [] OTHER -> TRUE

\* C9: in a successful parse result the element list is not empty and, at
\* every nesting level, a Variable has at most one of default and regex, a
\* Choice has at least one alternative and a Regex has at least one item.
C9_ResultInvariants ==
    pc = "done" /\ result.tag = "Ok" =>
        /\ Len(result.elements) >= 1
        /\ \A i \in 1..Len(result.elements) : ElementInvariant(result.elements[i])

C9_Witness ==
    /\ pc = "done"
    /\ input = RegexSrc(<<"a">>, <<"p">>, <<"x", "$", "1", "y">>, <<"g", "i">>)
    /\ result.tag = "Ok"
    /\ Len(result.elements) = 1
    /\ result.elements[1].default = None
    /\ Len(result.elements[1].regex[1].replacement) = 3

\* The text a placeholder at the start of u hands to its nested parse.
ReparseText(u) ==
    Finish(Seq4(u, LitOpen, digit, LitColon, UntilClose), u, LAMBDA v : v[4])

\* C10: at every position of the input a successful 'anything' and a
\* successful format item consume at least one character, a continued
\* separated list consumes at least its separator, and the text a
\* placeholder re-parses is strictly shorter than the placeholder's input.
C10_Progress ==
    \A k \in 0..Len(input) :
        LET u == Drop(input, k)
        IN  /\ anything(u).ok => Len(anything(u).rest) < Len(u)
            /\ format(u).ok => Len(format(u).rest) < Len(u)
            /\ SepTail(u).val # <<>> => Len(SepTail(u).rest) < Len(u)
            /\ ReparseText(u).ok => Len(ReparseText(u).val) < Len(u)

C10_Witness ==
    /\ pc = "done"
    /\ input = PlaceholderOpen \o Spell(<<1, 3>>) \o CloseBrace
    /\ result.tag = "Ok"
    /\ ReparseText(input).ok
    /\ Len(anything(input).rest) < Len(input)

---------------------------------------------------------------------------
(* Literal source forms: s is a way to write the element from its fields   *)

NumeralOf(d, n) == IsDigitRun(d) /\ Canon(d) = n

Braced(s) == Len(s) >= 3 /\ IsPrefix(DollarBrace, s) /\ s[Len(s)] = "}"

Inner(s) == SubSeq(s, 3, Len(s) - 1)

RECURSIVE Join(_, _)
Join(ss, sepr) ==
    IF Len(ss) = 1 THEN ss[1] ELSE ss[1] \o sepr \o Join(Tail(ss), sepr)

Keyword(c) ==
    CASE c = "Upcase" -> Upcase
      [] c = "Downcase" -> Downcase
      [] c = "Capitalize" -> Capitalize

\* '$' int | '${' int '}'
IsNumberSource(n, s) ==
    \/ IsPrefix(Dollar, s) /\ NumeralOf(Drop(s, 1), n)
    \/ Braced(s) /\ NumeralOf(Inner(s), n)

\* '${' int tail '}'
IsBracedNumberSource(n, tail, s) ==
    /\ Braced(s)
    /\ \E k \in 1..Len(Inner(s)) :
           NumeralOf(Take(Inner(s), k), n) /\ Drop(Inner(s), k) = tail

IsFormatSource(f, s) ==
    CASE f.kind = "Text" -> s = f.text
      [] f.kind = "Capture" -> IsNumberSource(f.group, s)
      [] f.kind = "CaseChange" ->
            IsBracedNumberSource(f.group, <<":", "/">> \o Keyword(f.change), s)
      [] f.kind = "Conditional" ->
            IF f.if # None /\ f.else = None
            THEN IsBracedNumberSource(f.group, <<":", "+">> \o f.if[1], s)
            ELSE IF f.if # None
            THEN IsBracedNumberSource(f.group,
                    <<":", "?">> \o f.if[1] \o <<":">> \o f.else[1], s)
            ELSE \/ IsBracedNumberSource(f.group, <<":">> \o f.else[1], s)
                 \/ IsBracedNumberSource(f.group, <<":", "-">> \o f.else[1], s)

RECURSIVE IsFormatsSource(_, _)
IsFormatsSource(fs, s) ==
    IF fs = <<>> THEN s = <<>>
    ELSE \E k \in 1..Len(s) :
            IsFormatSource(fs[1], Take(s, k)) /\ IsFormatsSource(Tail(fs), Drop(s, k))

\* '${' name '/' value '/' replacement '/' options '}'
IsRegexVariableSource(name, re, s) ==
    LET head == name \o <<"/">> \o re.value \o <<"/">>
        tail == <<"/">> \o (IF re.options = None THEN <<>> ELSE re.options[1])
        body == Inner(s)
    IN  /\ Braced(s)
        /\ Len(body) >= Len(head) + Len(tail)
        /\ Take(body, Len(head)) = head
        /\ Drop(body, Len(body) - Len(tail)) = tail
        /\ IsFormatsSource(re.replacement,
                           SubSeq(body, Len(head) + 1, Len(body) - Len(tail)))

RECURSIVE IsElementSource(_, _)
IsElementSource(e, s) ==
    CASE e.kind = "Text" -> s = e.text
      [] e.kind = "Tabstop" -> IsNumberSource(e.tabstop, s)
      [] e.kind = "Placeholder" ->
            /\ Braced(s)
            /\ \E k \in 1..(Len(Inner(s)) - 1) :
                   /\ NumeralOf(Take(Inner(s), k), e.tabstop)
                   /\ Inner(s)[k + 1] = ":"
                   /\ IsElementSource(e.value, Drop(Inner(s), k + 1))
      [] e.kind = "Choice" ->
            IsBracedNumberSource(e.tabstop,
                <<"|">> \o Join(e.choices, <<",">>) \o <<"|">>, s)
      [] e.kind = "Variable" ->
            IF e.regex # None THEN IsRegexVariableSource(e.name, e.regex[1], s)
            ELSE IF e.default # None
            THEN s = DollarBrace \o e.name \o <<":">> \o e.default[1] \o CloseBrace
            ELSE s = Dollar \o e.name

RECURSIVE IsElementsSource(_, _)
IsElementsSource(es, s) ==
    IF es = <<>> THEN s = <<>>
    ELSE \E k \in 1..Len(s) :
            IsElementSource(es[1], Take(s, k)) /\ IsElementsSource(Tail(es), Drop(s, k))

\* The prefix of s that a successful parse of s consumed.
Consumed(s) == Take(s, Len(s) - Len(snippet(s).rest))

\* C5 (as claimed): when parse succeeds, the literal source forms of the
\* returned elements, nested placeholder values included, concatenate to
\* exactly the prefix of the input that the parse consumed.
C5_RoundTrip ==
    pc = "done" /\ result.tag = "Ok" =>
        IsElementsSource(result.elements, Consumed(input))

=============================================================================
